---- MODULE Spec2Model ----
(***************************************************************************)
(* Model of gritcalc (src/app.py): the scoring function                    *)
(* score_endurance_event and the Streamlit script around it (the event     *)
(* form, the session list st.session_state.events, the results panel and   *)
(* the "Clear All Events" button).                                         *)
(*                                                                         *)
(* Numbers.  The program computes in binary floating point.  The model     *)
(* computes the same expressions exactly, as integer numerators over the   *)
(* common denominator Den, with the inputs on these grids:                 *)
(*   distance_km       in tenths of a kilometre   (212 is 21.2 km)         *)
(*   elevation_meters  in metres, a multiple of 50 for running types and   *)
(*                     of 200 for cycling types                            *)
(*   roughness         in tenths (the slider's step, 0..10)                *)
(*   draft_percentage  in percent (the slider's step is 5)                 *)
(*   temperature_c     in whole degrees                                    *)
(*   avg_altitude_m    in metres                                           *)
(* On these grids every \div below is exact.  A score is held in           *)
(* hundredths of a point (cents): 238 is 2.38.                             *)
(*                                                                         *)
(* round(final_score, 2) rounds the float that the program computed, which *)
(* differs from the exact value by a few units in the last place.  That    *)
(* error decides the result only when the exact value lies halfway between *)
(* two hundredths (on the grids above any other value is at least          *)
(* 1/(2*Den) away from a halfway point): there the program returns the     *)
(* lower hundredth for some inputs and the upper for others, e.g.          *)
(*   score_endurance_event(42.2, 150, "run")         = 2.38                *)
(*   score_endurance_event(126.6, 600, "road_cycle") = 2.37                *)
(* although both are exactly 2.375.  round2 therefore yields both          *)
(* hundredths at an exact tie and the one nearest hundredth otherwise.     *)
(***************************************************************************)
EXTENDS Integers, Sequences, FiniteSets, TLC

VARIABLES
    args,           \* the arguments of one call of score_endurance_event
    pc,             \* "call" before the call, "done" after it ("idle": none yet)
    ret,            \* the value the call returned, in cents
    locals,         \* the call's local values at its return
    events,         \* st.session_state.events
    form,           \* the values of the form's widgets in the last script run
    submitted,      \* st.form_submit_button(...) in the last script run
    clear_clicked,  \* st.button("Clear All Events") in the last script run
    panel           \* what the last script run rendered in col2

vars == <<args, pc, ret, locals, events, form, submitted, clear_clicked, panel>>

----------------------------------------------------------------------------
(* Bounds of the model *)

MaxElevSteps == 3      \* elevations 0 .. MaxElevSteps grid steps (plus 8 and 11 steps)
MaxEvents == 2         \* longest session list explored

----------------------------------------------------------------------------
(* score_endurance_event, src/app.py:5-61 *)

\* common denominator of all scaled values: 211 for 2.0/42.2 per tenth of a
\* kilometre, 3 for DISTANCE_FACTOR, 1600 for ELEVATION_FACTOR * 400, and 50
\* so that the products with (10 + roughness)/10 and (1000 - 3*pct)/1000 and
\* the altitude term a/1250 stay integral
Den == 211 * 3 * 1600 * 50

MIN_RUN_DISTANCE == 212
MIN_CYCLE_DISTANCE == 700
DISTANCE_FACTOR == 3
ELEVATION_FACTOR == 4

\* the cycling minimum that the on-page explanation documents (80km)
DOC_MIN_CYCLE_DISTANCE == 800

RunTypes == {"run", "trail_run"}
CycleTypes == {"road_cycle", "gravel", "mtb"}
EventTypes == RunTypes \cup CycleTypes

\* 2.0 / 42.2 per kilometre = 1/211 per tenth of a kilometre
NORMALIZATION_FACTOR == Den \div 211

\* mutant of gated: the comparisons not strict
gated_nonstrict(a) ==
    \/ a.event_type \in RunTypes /\ a.distance_km <= MIN_RUN_DISTANCE
    \/ a.event_type \in CycleTypes /\ a.distance_km <= MIN_CYCLE_DISTANCE

\* the condition of the early return 0.0
gated(a) ==
    \/ a.event_type \in RunTypes /\ a.distance_km < MIN_RUN_DISTANCE
    \/ a.event_type \in CycleTypes /\ a.distance_km < MIN_CYCLE_DISTANCE

base_score(a) ==
    IF a.event_type \in RunTypes
    THEN a.distance_km * NORMALIZATION_FACTOR
         + a.elevation_meters * (Den \div 400)
    ELSE (a.distance_km * NORMALIZATION_FACTOR) \div DISTANCE_FACTOR
         + (a.elevation_meters * (Den \div 400)) \div ELEVATION_FACTOR

\* 1 + roughness, in tenths
terrain_factor(a) == 10 + a.roughness

\* mutant of DRAFT_FACTOR: a full draft halves the score
DRAFT_FACTOR_half(a) == 1000 - 5 * a.draft_percentage

\* 1.0 - (draft_percentage / 100 * 0.3), in thousandths
DRAFT_FACTOR(a) == 1000 - 3 * a.draft_percentage

\* mutant of temp_adjustment: the cold adjustment with the opposite sign
temp_adjustment_flipped(temperature_c) ==
    IF temperature_c <= 10 THEN (10 - temperature_c) * (Den \div 20)
    ELSE IF temperature_c <= 20 THEN 0
    ELSE (temperature_c - 20) * (Den \div 10)

temp_adjustment(temperature_c) ==
    IF temperature_c <= 10 THEN (temperature_c - 10) * (Den \div 20)
    ELSE IF temperature_c <= 20 THEN 0
    ELSE (temperature_c - 20) * (Den \div 10)

\* mutant of altitude_adjustment: the condition the other way round
altitude_adjustment_inverted(avg_altitude_m) ==
    IF avg_altitude_m >= 500 THEN avg_altitude_m * (Den \div 1250)
    ELSE 0

\* (avg_altitude_m / 1000) * 0.8 = avg_altitude_m / 1250
altitude_adjustment(avg_altitude_m) ==
    IF avg_altitude_m < 500 THEN avg_altitude_m * (Den \div 1250)
    ELSE 0

terrain_adjusted(a) == (base_score(a) \div 10) * terrain_factor(a)

draft_adjusted(a) == (terrain_adjusted(a) \div 1000) * DRAFT_FACTOR(a)

\* mutant of final_score: the draft factor applied after the temperature
\* adjustment was added
final_score_draft_last(a) ==
    ((terrain_adjusted(a) + temp_adjustment(a.temperature_c)) \div 1000)
            * DRAFT_FACTOR(a)
        + altitude_adjustment(a.avg_altitude_m)

final_score(a) ==
    draft_adjusted(a) + temp_adjustment(a.temperature_c)
        + altitude_adjustment(a.avg_altitude_m)

\* round(x, 2) of the float computed for the exact value x / Den: the cents
\* it can return (see the header)
round2(x) ==
    LET U == Den \div 100
        q == x \div U
        r == x % U
    IN  IF 2 * r < U THEN {q}
        ELSE IF 2 * r > U THEN {q + 1}
        ELSE {q, q + 1}

\* the values score_endurance_event(a) can return, in cents
score_endurance_event(a) ==
    IF gated(a) THEN {0} ELSE round2(final_score(a))

\* the function's locals at its return (all 0 at the early return)
locals_of(a) ==
    IF gated(a)
    THEN [gated |-> TRUE, base_score |-> 0, temp_adjustment |-> 0,
          altitude_adjustment |-> 0, final_score |-> 0]
    ELSE [gated |-> FALSE, base_score |-> base_score(a),
          temp_adjustment |-> temp_adjustment(a.temperature_c),
          altitude_adjustment |-> altitude_adjustment(a.avg_altitude_m),
          final_score |-> final_score(a)]

NoLocals ==
    [gated |-> FALSE, base_score |-> 0, temp_adjustment |-> 0,
     altitude_adjustment |-> 0, final_score |-> 0]

----------------------------------------------------------------------------
(* Inputs of the scoring specification *)

Distances == {0, 211, 212, 422, 699, 700, 799, 1266}
ElevSteps == (0 .. MaxElevSteps) \cup {8, 11}
ElevUnit(t) == IF t \in RunTypes THEN 50 ELSE 50 * ELEVATION_FACTOR
Roughnesses == {0, 3, 10}
DraftPercentages == {0, 50, 100}
Temperatures == {-20, -5, -4, 9, 10, 11, 20, 21, 50}
Altitudes == {0, 499, 500, 5000}

Args(t, d, e, r, dp, tc, alt) ==
    [event_type |-> t, distance_km |-> d, elevation_meters |-> e,
     roughness |-> r, draft_percentage |-> dp, temperature_c |-> tc,
     avg_altitude_m |-> alt]

ScoreInputs ==
    { Args(t, d, k * ElevUnit(t), r, dp, tc, alt) :
        t \in EventTypes, d \in Distances, k \in ElevSteps,
        r \in Roughnesses, dp \in DraftPercentages,
        tc \in Temperatures, alt \in Altitudes }

\* the defaults of the function's parameters and of the form's widgets
DefaultArgs == Args("run", 422, 0, 0, 0, 20, 0)

----------------------------------------------------------------------------
(* The script: form, session list, results panel; src/app.py:63-186.       *)
(* One action is one run of the script from top to bottom.                 *)

\* the arguments the script passes to score_endurance_event (lines 126-134)
ArgsOfForm(f) ==
    Args(f.event_type, f.distance, f.elevation, f.roughness,
         f.draft_percentage, f.temperature, f.altitude)

Form(n, a) ==
    [event_name |-> n, event_type |-> a.event_type,
     distance |-> a.distance_km, elevation |-> a.elevation_meters,
     roughness |-> a.roughness, draft_percentage |-> a.draft_percentage,
     temperature |-> a.temperature_c, altitude |-> a.avg_altitude_m]

\* the dictionary appended to the session list (lines 136-146)
new_event(f, score) ==
    [name |-> f.event_name, type |-> f.event_type, distance |-> f.distance,
     elevation |-> f.elevation, roughness |-> f.roughness,
     draft_pct |-> f.draft_percentage, temp |-> f.temperature,
     altitude |-> f.altitude, score |-> score]

\* the bars of px.bar(df, x='name', y='score', color='type')
bars(df) ==
    [i \in 1 .. Len(df) |->
        [x |-> df[i].name, y |-> df[i].score, color |-> df[i].type]]

\* col2 as rendered from the list evs (lines 154-186, without the button)
render(evs) ==
    IF evs # <<>>
    THEN [kind |-> "table", table |-> evs, chart |-> bars(evs)]
    ELSE [kind |-> "info", table |-> <<>>, chart |-> <<>>]

\* what the user can enter in the form
EventNames == {"a", "b"}
FormArgs ==
    { DefaultArgs,
      Args("run", 211, 0, 0, 0, 20, 0),
      Args("run", 422, 150, 0, 0, 20, 0),
      Args("trail_run", 212, 0, 0, 0, -20, 0),
      Args("road_cycle", 700, 200, 3, 50, 21, 499),
      Args("mtb", 1266, 600, 0, 0, 20, 500) }
FormInputs == { Form(n, a) : n \in EventNames, a \in FormArgs }

\* the state after the first run of the script in a new session
InitUI ==
    /\ events = <<>>
    /\ form = Form("", DefaultArgs)
    /\ submitted = FALSE
    /\ clear_clicked = FALSE
    /\ panel = render(<<>>)

\* mutant of Submit: the new event inserted at the head of the list
Submit_prepend(f) ==
    /\ Len(events) < MaxEvents
    /\ \E score \in score_endurance_event(ArgsOfForm(f)) :
          /\ events' = <<new_event(f, score)>> \o events
          /\ ret' = score
    /\ args' = ArgsOfForm(f)
    /\ locals' = locals_of(ArgsOfForm(f))
    /\ pc' = "done"
    /\ form' = f
    /\ submitted' = TRUE
    /\ clear_clicked' = FALSE
    /\ panel' = render(events')

\* the run that follows a click on "Calculate Grit Points" with the form
\* holding f: score, append, then render col2 (the Clear button is rendered
\* but was not clicked)
Submit(f) ==
    /\ Len(events) < MaxEvents
    /\ \E score \in score_endurance_event(ArgsOfForm(f)) :
          /\ events' = Append(events, new_event(f, score))
          /\ ret' = score
    /\ args' = ArgsOfForm(f)
    /\ locals' = locals_of(ArgsOfForm(f))
    /\ pc' = "done"
    /\ form' = f
    /\ submitted' = TRUE
    /\ clear_clicked' = FALSE
    /\ panel' = render(events')

\* the run that follows a click on "Clear All Events", a button that exists
\* only if the previous run rendered it (line 183 is inside "if events")
ClearAll ==
    /\ panel.kind = "table"
    /\ submitted' = FALSE
    /\ panel' = render(events)
    /\ IF events # <<>>
       THEN clear_clicked' = TRUE /\ events' = <<>>
       ELSE clear_clicked' = FALSE /\ events' = events
    /\ UNCHANGED <<form, args, pc, ret, locals>>

\* a run with no submission and no click
Rerun ==
    /\ submitted' = FALSE
    /\ clear_clicked' = FALSE
    /\ panel' = render(events)
    /\ UNCHANGED <<events, form, args, pc, ret, locals>>

Init ==
    /\ InitUI
    /\ args = DefaultArgs
    /\ pc = "idle"
    /\ ret = 0
    /\ locals = NoLocals

Next ==
    \/ \E f \in FormInputs : Submit(f)
    \/ ClearAll
    \/ Rerun

Spec == Init /\ [][Next]_vars

----------------------------------------------------------------------------
(* Specification of one call of the scoring function *)

InitScore ==
    /\ args \in ScoreInputs
    /\ pc = "call"
    /\ ret = 0
    /\ locals = NoLocals
    /\ InitUI

CallScore ==
    /\ pc = "call"
    /\ ret' \in score_endurance_event(args)
    /\ locals' = locals_of(args)
    /\ pc' = "done"
    /\ UNCHANGED <<args, events, form, submitted, clear_clicked, panel>>

NextScore == CallScore

SpecScore == InitScore /\ [][NextScore]_vars

----------------------------------------------------------------------------
(* Properties of score_endurance_event, checked under SpecScore *)

\* the call returned normally, past the early return
Scored == pc = "done" /\ ~locals.gated

C2_DocumentedCyclingMinimum ==
    (pc = "done" /\ args.event_type \in CycleTypes
        /\ args.distance_km < DOC_MIN_CYCLE_DISTANCE) => ret = 0

\* C3: with roughness 0, draft 0, temperature in (10, 20] and no altitude
\* adjustment a scored event returns d_eff * (2.0/42.2) + e_eff / 400
\* rounded to the nearest hundredth (halves to the even hundredth, as
\* round() rounds), where cycling divides the distance by 3 and the
\* elevation by 4; so a flat 42.2 km run scores 2.0, 400 m more running
\* elevation scores 1 point more, and a ride of distance 3d and elevation
\* 4e scores what a run of distance d and elevation e scores.
C3_BaseCalibration ==
    (/\ Scored
     /\ args.roughness = 0 /\ args.draft_percentage = 0
     /\ args.temperature_c > 10 /\ args.temperature_c <= 20
     /\ (args.avg_altitude_m = 0 \/ args.avg_altitude_m >= 500))
    =>
    LET d == args.distance_km
        e == args.elevation_meters
        x == IF args.event_type \in RunTypes
             THEN d * (Den \div 211) + e * (Den \div 400)
             ELSE d * (Den \div 633) + e * (Den \div 1600)
        U == Den \div 100
        q == x \div U
        nearest == IF 2 * (x % U) < U THEN q
                   ELSE IF 2 * (x % U) > U THEN q + 1
                   ELSE IF q % 2 = 0 THEN q ELSE q + 1
    IN  /\ ret = nearest
        /\ (args.event_type = "run" /\ d = 422 /\ e = 0) => ret = 200
        /\ args.event_type \in RunTypes =>
              \A s \in score_endurance_event(
                          [args EXCEPT !.elevation_meters = e + 400]) :
                  s = ret + 100
        /\ (args.event_type \in CycleTypes /\ d % 3 = 0 /\ e % 4 = 0
                /\ d \div 3 >= MIN_RUN_DISTANCE) =>
              \A s \in score_endurance_event(
                          [args EXCEPT !.event_type = "run",
                                       !.distance_km = d \div 3,
                                       !.elevation_meters = e \div 4]) :
                  s = ret

C5_DocumentedAltitude ==
    Scored =>
        LET alt == args.avg_altitude_m
        IN  /\ alt < 500 => locals.altitude_adjustment = 0
            /\ alt >= 500 =>
                  locals.altitude_adjustment = alt * (Den \div 1250)

\* C6: the temperature adjustment of a scored event is
\* (temperature_c - 10) * 0.05 up to 10 degrees, 0 above 10 and up to 20,
\* and (temperature_c - 20) * 0.1 above 20; so over [-20, 50], with the
\* other arguments fixed, a colder event below 10 degrees never scores
\* more, a hotter event above 20 degrees never scores less, and the score
\* is the same for all temperatures in [10, 20].
C6_Temperature ==
    Scored =>
        LET t == args.temperature_c
            At(t2) == [args EXCEPT !.temperature_c = t2]
        IN  /\ t <= 10 => 20 * locals.temp_adjustment = (t - 10) * Den
            /\ (t > 10 /\ t <= 20) => locals.temp_adjustment = 0
            /\ t > 20 => 10 * locals.temp_adjustment = (t - 20) * Den
            /\ \A t2 \in -20 .. 50 :
                /\ (t2 < t /\ t <= 10) =>
                      \A s \in score_endurance_event(At(t2)) : s <= ret
                /\ (t >= 20 /\ t < t2) =>
                      \A s \in score_endurance_event(At(t2)) : s >= ret
                /\ (t >= 10 /\ t <= 20 /\ t2 >= 10 /\ t2 <= 20) =>
                      /\ final_score(At(t2)) = locals.final_score
                      /\ ret \in score_endurance_event(At(t2))

C6_Witness ==
    /\ Scored
    /\ args.temperature_c = -20
    /\ locals.temp_adjustment < 0
    /\ args.event_type = "trail_run" /\ args.distance_km = 422

\* C8: the unrounded score of a scored event is
\* base * (1 + roughness) * (1.0 - draft_percentage / 100 * 0.3)
\* + temp_adjustment + altitude_adjustment, with the terrain multiplier in
\* [1, 2] and the draft multiplier in [0.7, 1.0]; the multipliers scale the
\* base only: what a change of roughness and draft percentage does to the
\* unrounded score is the same at every temperature and altitude.
C8_OrderOfOperations ==
    Scored =>
        /\ terrain_factor(args) \in 10 .. 20
        /\ DRAFT_FACTOR(args) \in 700 .. 1000
        /\ locals.final_score
             = (locals.base_score \div 10000) * (10 + args.roughness)
                     * (1000 - 3 * args.draft_percentage)
               + locals.temp_adjustment + locals.altitude_adjustment
        /\ \A r2 \in Roughnesses, dp2 \in DraftPercentages :
             LET other == [args EXCEPT !.roughness = r2,
                                       !.draft_percentage = dp2]
                 diff == locals.final_score - final_score(other)
             IN  \A t2 \in {-20, 15, 50}, alt2 \in {0, 499, 500} :
                     final_score([args EXCEPT !.temperature_c = t2,
                                              !.avg_altitude_m = alt2])
                       - final_score([other EXCEPT !.temperature_c = t2,
                                                   !.avg_altitude_m = alt2])
                       = diff

C8_Witness ==
    /\ Scored
    /\ args.roughness = 10 /\ args.draft_percentage = 100
    /\ args.temperature_c = 50 /\ args.avg_altitude_m = 499
    /\ locals.base_score > 0

\* C9: the score is never negative for any input the form can produce.
C9_NeverNegative == pc = "done" => ret >= 0

\* C9 as amended: the score is never negative when temperature_c >= -4,
\* and never below -0.8 at all.
C9_NonNegativeFromMinus4 ==
    pc = "done" =>
        /\ args.temperature_c >= -4 => ret >= 0
        /\ ret >= -80

C9_Witness ==
    /\ pc = "done"
    /\ ~locals.gated
    /\ args.temperature_c = -4
    /\ args.event_type = "run" /\ args.distance_km = 212
    /\ args.draft_percentage = 100 /\ args.roughness = 0
    /\ args.elevation_meters = 0 /\ args.avg_altitude_m = 0
    /\ ret = 0

----------------------------------------------------------------------------
(* Properties of the script, checked under Spec *)

\* C7: a run with a submission appends exactly one entry to the end of the
\* session list, holding the submitted form's values and the score of its
\* own stored fields, and leaves the earlier entries as they were; a run
\* with a click on Clear All Events leaves the list empty; any other run
\* leaves the list unchanged.  (So the list is always the events submitted
\* since the last clear, in submission order.)
C7_SessionList ==
    [][ IF submitted'
        THEN /\ Len(events') = Len(events) + 1
             /\ SubSeq(events', 1, Len(events)) = events
             /\ LET e == events'[Len(events')]
                IN  /\ e.name = form'.event_name
                    /\ e.type = form'.event_type
                    /\ e.distance = form'.distance
                    /\ e.elevation = form'.elevation
                    /\ e.roughness = form'.roughness
                    /\ e.draft_pct = form'.draft_percentage
                    /\ e.temp = form'.temperature
                    /\ e.altitude = form'.altitude
                    /\ e.score \in score_endurance_event(
                          Args(e.type, e.distance, e.elevation, e.roughness,
                               e.draft_pct, e.temp, e.altitude))
        ELSE IF clear_clicked'
        THEN events' = <<>>
        ELSE events' = events ]_vars

C7_Witness ==
    /\ submitted
    /\ Len(events) = 2
    /\ events[1].name = "b" /\ events[1].type = "mtb"
    /\ events[2].name = "a" /\ events[2].type = "trail_run"
    /\ events[2].score < 0

\* C10: at the end of every run the results panel agrees with the session
\* list: a non-empty list is shown as the table and chart of exactly its
\* entries, an empty list as "No events added" with no table or chart.
C10_PanelAgreesWithList ==
    /\ events # <<>> =>
          /\ panel.kind = "table"
          /\ panel.table = events
          /\ panel.chart = bars(events)
    /\ events = <<>> =>
          /\ panel.kind = "info"
          /\ panel.table = <<>>
          /\ panel.chart = <<>>

====
